---- MODULE Spec2Model ----
(***************************************************************************)
(* DecisionTreeRegression.py: a script that loads a sensor-reading dataset *)
(* and one new reading, engineers the timestamp, vectorizes the features,  *)
(* trains or loads a decision-tree model kept under a path named after the *)
(* label, reports feature importances, predicts and evaluates.             *)
(*                                                                         *)
(* The state is the file system the script reads and writes (the two input *)
(* files and the model paths) and, for each invocation of the script, the  *)
(* frame of main(): its position and its local variables.  Invocations     *)
(* follow one another (Spec) or overlap (SpecOverlap); SpecBucket runs the *)
(* timestamp engineering over readings taken at every half hour.           *)
(*                                                                         *)
(* A call into the engine is one step.  It raises where the modelled       *)
(* inputs make it raise (a missing file or column, a null, an incomplete   *)
(* artifact, None); a call no modelled input can make raise (SparkContext, *)
(* cacheDataframe, vectorizeDataframe, splitDataframe, the construction of *)
(* the cross-validator, fit, save) raises or not, as the engine decides.   *)
(***************************************************************************)
EXTENDS Integers, Sequences, FiniteSets, TLC

(***************************************************************************)
(* Bounds of the model.                                                    *)
(***************************************************************************)
MaxRuns == 3        \* invocations of the script in one behaviour
NumTrees == 2       \* distinct trees a fit can produce
MaxTicks == 60      \* timestamps of SpecBucket, one per half hour
MaxFeature == 2     \* feature values a prediction is compared on: 0..MaxFeature

(***************************************************************************)
(* Values.  A cell of a dataframe row is a typed value that may be null;   *)
(* a Python value that is unset is None.                                   *)
(***************************************************************************)
Null == <<>>
None == [none |-> TRUE]
NoneStr == "None"

Cell(t, v) == [type |-> t, val |-> v]
IsNull(c) == c.val = Null
Range(s) == {s[i] : i \in DOMAIN s}

(***************************************************************************)
(* Dataframes: the ordered column names and one representative row.        *)
(***************************************************************************)
HasColumn(df, name) == name \in Range(df.columns)

\* DataFrame.withColumn: replaces the column of that name in place, or
\* appends a new one.
WithColumn(df, name, cell) ==
    [columns |-> IF HasColumn(df, name) THEN df.columns
                 ELSE Append(df.columns, name),
     row |-> [c \in (DOMAIN df.row) \cup {name} |->
                 IF c = name THEN cell ELSE df.row[c]]]

\* DataFrame.drop: removes the column; no effect when there is none.
Drop(df, name) ==
    [columns |-> SelectSeq(df.columns, LAMBDA c : c # name),
     row |-> [c \in (DOMAIN df.row) \ {name} |-> df.row[c]]]

(***************************************************************************)
(* filterTimestamp (lines 49-64).                                          *)
(***************************************************************************)
MsPerSecond == 1000
HoursPerRange == 3
DaysInMonth == <<31, 28, 31, 30, 31, 30, 31, 31, 30, 31, 30, 31>>

\* The month and day of month of the d-th day (from 0) of a non-leap year,
\* counting from month m.
RECURSIVE MonthDay(_, _)
MonthDay(d, m) ==
    IF m = 12 \/ d < DaysInMonth[m] THEN [month |-> m, day |-> d + 1]
    ELSE MonthDay(d - DaysInMonth[m], m + 1)

\* from_unixtime(col / 1000, 'yyyy-MM-dd HH:mm:ss'): the quotient is cast to
\* whole seconds and formatted; the fields of the formatted string.
\* Timestamps of the model lie in 1970 (UTC session time zone).
FromUnixtime(cell) ==
    IF IsNull(cell) THEN Cell("string", Null)
    ELSE LET sec == cell.val[1] \div MsPerSecond
             md == MonthDay(sec \div 86400, 1)
             inDay == sec % 86400
         IN Cell("string",
                 <<[year |-> 1970, month |-> md.month, day |-> md.day,
                    HH |-> inDay \div 3600,
                    mm |-> (inDay % 3600) \div 60,
                    ss |-> inDay % 60]>>)

\* to_timestamp: parses the formatted string into a timestamp.
ToTimestamp(cell) == Cell("timestamp", cell.val)

Month(cell) ==
    IF IsNull(cell) THEN Cell("int", Null)
    ELSE Cell("int", <<cell.val[1].month>>)
DayOfMonth(cell) ==
    IF IsNull(cell) THEN Cell("int", Null)
    ELSE Cell("int", <<cell.val[1].day>>)
Hour(cell) ==
    IF IsNull(cell) THEN Cell("int", Null)
    ELSE Cell("int", <<cell.val[1].HH>>)

\* F.floor(hour.cast("integer") / 3): the quotient is a double, its floor a
\* long; for an hour that is not negative it is the integer quotient.
HourRangeRounded(cell) ==
    IF IsNull(cell) THEN Cell("long", Null)
    ELSE Cell("long", <<(2 * cell.val[1] + HoursPerRange) \div (2 * HoursPerRange)>>)
HourRange(cell) ==
    IF IsNull(cell) THEN Cell("long", Null)
    ELSE Cell("long", <<cell.val[1] \div HoursPerRange>>)

\* The dataframe before hour_range replaces hour (lines 50-59).
WithDateParts(dataDf) ==
    LET a == WithColumn(dataDf, "timestamp", FromUnixtime(dataDf.row["timestamp"]))
        b == WithColumn(a, "timestamp2", ToTimestamp(a.row["timestamp"]))
        c == WithColumn(b, "month", Month(b.row["timestamp2"]))
        d == WithColumn(c, "day", DayOfMonth(b.row["timestamp2"]))
        e == WithColumn(d, "hour", Hour(b.row["timestamp2"]))
    IN Drop(Drop(e, "timestamp"), "timestamp2")

\* filterTimestamp(dataDf); it raises when dataDf has no timestamp column.
filterTimestamp(dataDf) ==
    LET f == WithDateParts(dataDf)
        g == WithColumn(f, "hour_range", HourRange(f.row["hour"]))
    IN Drop(g, "hour")

filterTimestampRaises(dataDf) == ~HasColumn(dataDf, "timestamp")

(***************************************************************************)
(* initialize (lines 29-43): the two input files and the new reading.      *)
(***************************************************************************)
Missing == [exists |-> FALSE]
File(df) == [exists |-> TRUE, df |-> df]

TimestampMs == 46800000      \* a reading taken on 1970-01-01 at 13:00:00

\* data/readings.csv as read with header and inferred schema: readings
\* taken at ms, or (the third file) readings without a timestamp.
CsvAt(ms) ==
    File([columns |-> <<"timestamp", "temp", "hum">>,
          row |-> [c \in {"timestamp", "temp", "hum"} |->
                     IF c = "timestamp" THEN Cell("long", <<ms>>)
                     ELSE Cell("double", <<1>>)]])
CsvFiles ==
    {Missing,
     CsvAt(TimestampMs),
     File([columns |-> <<"temp", "hum">>,
           row |-> [c \in {"temp", "hum"} |-> Cell("double", <<1>>)]])}

\* data/newReading.json as read: the columns in the inferred (sorted) order,
\* a field that is null in the record inferred as a null string.
JsonAt(ms) ==
    File([columns |-> <<"hum", "temp", "timestamp">>,
          row |-> [c \in {"hum", "temp", "timestamp"} |->
                     CASE c = "timestamp" -> Cell("long", <<ms>>)
                       [] c = "hum" -> Cell("long", <<5>>)
                       [] OTHER -> Cell("string", Null)]])
JsonFiles ==
    {Missing,
     JsonAt(TimestampMs),
     File([columns |-> <<"hum", "temp">>,
           row |-> [c \in {"hum", "temp"} |-> Cell("long", <<3>>)]])}

\* The command lines: sys.argv, the script's name and the label if given.
Script == "DecisionTreeRegression.py"
Args == {<<Script>>, <<Script, "temp">>, <<Script, "hum">>, <<Script, "timestamp">>}
Labels == {"temp", "hum", "timestamp"}

\* sys.argv[1] (Python counts from 0) and whether taking it raises IndexError.
Argv1(argv) == argv[2]
Argv1Raises(argv) == Len(argv) < 2

\* col(name).cast(DoubleType()): a null stays null.
CastDouble(cell) == Cell("double", cell.val)

\* na.fill(value=0.0, subset=[name]): a null of the numeric column name
\* becomes 0.0; the other columns are left as they are.
NaFillKeepsNull(df, name) == df
NaFill(df, name) ==
    IF HasColumn(df, name) /\ IsNull(df.row[name]) /\ df.row[name].type = "double"
    THEN WithColumn(df, name, Cell("double", <<0>>))
    ELSE df

\* The try block of initialize raises when a file cannot be read, when
\* there is no sys.argv[1], or when the new reading has no such column.
initializeRaises(csvFile, jsonFile, argv) ==
    \/ ~csvFile.exists
    \/ ~jsonFile.exists
    \/ Argv1Raises(argv)
    \/ ~HasColumn(jsonFile.df, Argv1(argv))

\* The new reading initialize returns (lines 35-37).
initializeNewReading(jsonFile, argv) ==
    LET l == Argv1(argv)
        newReading == WithColumn(jsonFile.df, l, CastDouble(jsonFile.df.row[l]))
    IN NaFill(newReading, l)

(***************************************************************************)
(* main's feature list (lines 169-170): list.remove takes out the first    *)
(* element equal to x and raises ValueError when there is none.            *)
(***************************************************************************)
RECURSIVE ListRemove(_, _)
ListRemoveNothing(list, x) == list
ListRemove(list, x) ==
    IF list = <<>> THEN <<>>
    ELSE IF Head(list) = x THEN Tail(list)
    ELSE <<Head(list)>> \o ListRemove(Tail(list), x)

ListRemoveRaises(list, x) == x \notin Range(list)

(***************************************************************************)
(* vectorizeDataframe (lines 80-83): VectorAssembler adds the column       *)
(* 'features', the values of the input columns in order.  Assembling is    *)
(* lazy: a null among the inputs raises only when the rows are computed.   *)
(***************************************************************************)
vectorizeDataframe(dataDf, features) ==
    WithColumn(dataDf, "features",
               [type |-> "vector",
                val |-> <<[i \in DOMAIN features |-> dataDf.row[features[i]].val]>>,
                inputCols |-> features])

vectorizeDataframeRaises(dataDf, features) ==
    \E i \in DOMAIN features : ~HasColumn(dataDf, features[i])

\* Computing the rows of a vectorized dataframe raises on a null input.
AssembleRaises(df) ==
    \E i \in DOMAIN df.row["features"].val[1] : df.row["features"].val[1][i] = Null

(***************************************************************************)
(* decisionTreeRegression (lines 94-114): the cross-validator and the      *)
(* evaluator, both for the label column.                                   *)
(***************************************************************************)
MaxDepthGrid == <<2, 5, 10, 20, 30>>
MaxBinsGrid == <<10, 20, 40, 80, 100>>
NumFolds == 5
Parallelism == 3

decisionTreeRegression(label) ==
    [dtcv |-> [featuresCol |-> "features", labelCol |-> label,
               grid |-> {<<MaxDepthGrid[i], MaxBinsGrid[j]>> :
                            i \in DOMAIN MaxDepthGrid, j \in DOMAIN MaxBinsGrid},
               numFolds |-> NumFolds, parallelism |-> Parallelism],
     dtEvaluator |-> [predictionCol |-> "prediction", labelCol |-> label,
                      metricName |-> "rmse"]]

(***************************************************************************)
(* Models and their artifacts (lines 120-141).  A fitted tree is a stump:  *)
(* a threshold on the first feature and the predictions of its two leaves. *)
(***************************************************************************)
Trees == {[thr |-> 0, lo |-> 0, hi |-> k] : k \in 1..NumTrees}

\* dtcv.fit(trainDf).bestModel, for the tree the search settles on.
BestModel(dtcv, tree) ==
    [featuresCol |-> dtcv.featuresCol, labelCol |-> dtcv.labelCol, tree |-> tree]

\* bestModel.transform: the prediction for a feature value.
Predict(model, x) ==
    IF x <= model.tree.thr THEN model.tree.lo ELSE model.tree.hi

\* The path the model of a label is kept under.
ModelDir == "./TrainedModels/DecisionTreeBestModels/"
ModelPathOfOneLabel(label) == <<ModelDir, "temp">>
ModelPath(label) == <<ModelDir, label>>
ModelPaths == {<<ModelDir, l>> : l \in Labels}

Absent == [kind |-> "absent"]

\* What write().save() puts under the path: the metadata, then the nodes.
Metadata(model) ==
    [class |-> "DecisionTreeRegressionModel",
     featuresCol |-> model.featuresCol, labelCol |-> model.labelCol]
NodeData(tree) ==
    <<[id |-> 0, prediction |-> tree.lo, leftChild |-> 1, rightChild |-> 2,
       threshold |-> tree.thr],
      [id |-> 1, prediction |-> tree.lo, leftChild |-> -1, rightChild |-> -1,
       threshold |-> -1],
      [id |-> 2, prediction |-> tree.hi, leftChild |-> -1, rightChild |-> -1,
       threshold |-> -1]>>

Partial(model) == [kind |-> "partial", metadata |-> Metadata(model)]
Saved(model) ==
    [kind |-> "saved", metadata |-> Metadata(model), data |-> NodeData(model.tree)]

\* Path(...).exists()
PathExistsNever(files, path) == FALSE
PathExistsIfComplete(files, path) == files[path].kind = "saved"
PathExists(files, path) == files[path].kind # "absent"

\* write().overwrite().save(path), one step: what is under the path is
\* deleted, then the model is written.  outcome: "ok", or the exception met
\* before anything is written ("failed") or after the metadata ("partial").
SaveOutcomes == {"ok", "failed", "partial"}
SaveKeepsExisting(files, path, model, outcome) ==
    IF files[path].kind # "absent" THEN files
    ELSE [files EXCEPT ![path] = CASE outcome = "ok" -> Saved(model)
                                   [] outcome = "partial" -> Partial(model)
                                   [] OTHER -> Absent]
Save(files, path, model, outcome) ==
    [files EXCEPT ![path] = CASE outcome = "ok" -> Saved(model)
                              [] outcome = "partial" -> Partial(model)
                              [] OTHER -> Absent]

\* DecisionTreeRegressionModel.load(path): raises unless the artifact is
\* complete; the model is rebuilt from the metadata and the nodes.
LoadRaises(files, path) == files[path].kind # "saved"
Load(files, path) ==
    LET a == files[path]
        root == CHOOSE n \in Range(a.data) : n.id = 0
        left == CHOOSE n \in Range(a.data) : n.id = root.leftChild
        right == CHOOSE n \in Range(a.data) : n.id = root.rightChild
    IN [featuresCol |-> a.metadata.featuresCol, labelCol |-> a.metadata.labelCol,
        tree |-> [thr |-> root.threshold, lo |-> left.prediction,
                  hi |-> right.prediction]]

(***************************************************************************)
(* main (lines 165-179) and the script's last lines (183-185).             *)
(***************************************************************************)
\* The calls of main, in the order of its statements.
MainOrderPredictFirst ==
    <<"initialize", "setLabel", "filterTimestamp(dataDf)", "features.remove",
      "cacheDataframe", "filterTimestamp(newReading)",
      "vectorizeDataframe(filteredDf)", "splitDataframe",
      "vectorizeDataframe(nrFilteredDf)", "decisionTreeRegression",
      "trainOrLoad", "predictAndEvaluate", "featureImportance">>
MainOrder ==
    <<"initialize", "setLabel", "filterTimestamp(dataDf)", "features.remove",
      "cacheDataframe", "filterTimestamp(newReading)",
      "vectorizeDataframe(filteredDf)", "splitDataframe",
      "vectorizeDataframe(nrFilteredDf)", "decisionTreeRegression",
      "trainOrLoad", "featureImportance", "predictAndEvaluate">>

IndexOf(seq, x) == CHOOSE i \in DOMAIN seq : seq[i] = x

\* The statement main goes on with when the call returns: the next one, or
\* main's own return.
After(call) ==
    LET i == IndexOf(MainOrder, call)
    IN IF i = Len(MainOrder) THEN "return" ELSE MainOrder[i + 1]

\* The same, whether or not the call's guard logged a failure: a call is
\* not made again.
ResumeRetrying(call, failed) == IF failed THEN call ELSE After(call)
Resume(call, failed) == After(call)

\* Unpacking a returned pair raises TypeError when the value is None.
UnpackRaises(value) == value = None

\* bestModel.featureImportances raises AttributeError on None.
FeatureImportanceRaisesNever(bestModel) == FALSE
FeatureImportanceRaises(bestModel) == bestModel = None

\* predictAndEvaluate's body raises on None, or when assembling the rows of
\* the test split or of the new reading meets a null.
PredictRaises(bestModel, testDf, nrFilteredDf) ==
    \/ bestModel = None
    \/ AssembleRaises(testDf)
    \/ AssembleRaises(nrFilteredDf)

Slots == {1, 2}

VARIABLES
    csv,          \* data/readings.csv
    json,         \* data/newReading.json
    fs,           \* what lies under each model path
    started,      \* the invocations of the script so far
    savedModel,   \* per label, the model in memory of the run that last saved it
    main          \* per invocation slot, the frame of main()

vars == <<csv, json, fs, started, savedModel, main>>

Idle ==
    [pc |-> "idle", argv |-> <<>>, dataDf |-> None, newReading |-> None,
     label |-> NoneStr, filteredDf |-> None, features |-> <<>>,
     nrFilteredDf |-> None, trainSplit |-> None, testSplit |-> None,
     dtcv |-> None, dtEvaluator |-> None, bestModel |-> None,
     branch |-> "none", fitted |-> None, found |-> None, nrPrediction |-> Null,
     out |-> <<>>, trace |-> <<>>, failed |-> <<>>, uncaught |-> "none"]

Ended(f) == f.pc \in {"idle", "finished", "aborted"}

\* The frame once the call is made, once a line is printed, once a
\* function's body has raised, and once an exception leaves main uncaught.
Called(f, call) == [f EXCEPT !.trace = Append(@, call)]
Printed(f, line) == [f EXCEPT !.out = Append(@, line)]
Failed(f, function) == [f EXCEPT !.failed = Append(@, function)]
Raised(f, exception) == [f EXCEPT !.pc = "aborted", !.uncaught = exception]

Init ==
    /\ csv \in CsvFiles
    /\ json \in JsonFiles
    /\ fs = [p \in ModelPaths |-> Absent]
    /\ started = 0
    /\ savedModel = [l \in Labels |-> None]
    /\ main = [r \in Slots |-> Idle]

Frame(r, f) ==
    /\ main' = [main EXCEPT ![r] = f]
    /\ UNCHANGED <<csv, json, fs, started, savedModel>>

\* Line 183: the script is invoked, with a command line.
Invoke(r, argv) ==
    /\ Ended(main[r])
    /\ started < MaxRuns
    /\ started' = started + 1
    /\ main' = [main EXCEPT ![r] =
                  [Idle EXCEPT !.pc = MainOrder[1], !.argv = argv,
                               !.out = <<"Decision Tree Regression Test Starting">>]]
    /\ UNCHANGED <<csv, json, fs, savedModel>>

\* An invocation after every earlier one has ended.
Start(r) ==
    /\ r = 1
    /\ \A q \in Slots : Ended(main[q])
    /\ \E argv \in Args : Invoke(r, argv)

\* An invocation while another one is running.
StartOverlapping(r) ==
    /\ \E q \in Slots \ {r} : ~Ended(main[q])
    /\ \E argv \in Args : Invoke(r, argv)

\* Line 166, initialize (29-43).
Initialize(r) ==
    /\ main[r].pc = "initialize"
    /\ \E exc \in BOOLEAN :
        LET f == Called(main[r], "initialize")
            ret == IF initializeRaises(csv, json, f.argv) THEN None
                   ELSE [dataDf |-> csv.df,
                         nr |-> initializeNewReading(json, f.argv)]
        IN IF exc
           THEN Frame(r, Raised(Failed(f, "initialize"), "SparkContext"))
           ELSE IF UnpackRaises(ret)
           THEN Frame(r, Raised(Failed(Printed(f,
                    "Dataset Loading Error -> Cannot read the label"),
                    "initialize"), "TypeError"))
           ELSE Frame(r, [f EXCEPT !.dataDf = ret.dataDf, !.newReading = ret.nr,
                                   !.pc = Resume("initialize", FALSE)])

\* Line 167, setLabel (17-25).
SetLabel(r) ==
    /\ main[r].pc = "setLabel"
    /\ LET f == Called(main[r], "setLabel")
       IN IF Argv1Raises(f.argv)
          THEN Frame(r, [Failed(Printed(f,
                   "Label Setting Error -> Cannot retrieve the label"), "setLabel")
                   EXCEPT !.label = NoneStr, !.pc = Resume("setLabel", TRUE)])
          ELSE Frame(r, [Printed(f, "Label -> ")
                   EXCEPT !.label = Argv1(f.argv), !.pc = Resume("setLabel", FALSE)])

\* Line 168, filterTimestamp(dataDf).
FilterData(r) ==
    /\ main[r].pc = "filterTimestamp(dataDf)"
    /\ LET f == Called(main[r], "filterTimestamp(dataDf)")
       IN IF filterTimestampRaises(f.dataDf)
          THEN Frame(r, Raised(Failed(f, "filterTimestamp"), "AnalysisException"))
          ELSE Frame(r, [f EXCEPT !.filteredDf = filterTimestamp(f.dataDf),
                                  !.pc = Resume("filterTimestamp(dataDf)", FALSE)])

\* Lines 169-170: the feature list.
Features(r) ==
    /\ main[r].pc = "features.remove"
    /\ LET f == Called(main[r], "features.remove")
           features == f.filteredDf.columns
       IN IF ListRemoveRaises(features, f.label)
          THEN Frame(r, Raised(Failed(f, "features.remove"), "ValueError"))
          ELSE Frame(r, [f EXCEPT !.features = ListRemove(features, f.label),
                                  !.pc = Resume("features.remove", FALSE)])

\* Line 171, cacheDataframe (68-72).
CacheDataframe(r) ==
    /\ main[r].pc = "cacheDataframe"
    /\ \E exc \in BOOLEAN :
        LET f == Called(main[r], "cacheDataframe")
        IN IF exc
           THEN Frame(r, Raised(Failed(f, "cacheDataframe"), "Exception"))
           ELSE Frame(r, [Printed(f, "describe")
                            EXCEPT !.pc = Resume("cacheDataframe", FALSE)])

\* Line 172, filterTimestamp(newReading).
FilterNewReading(r) ==
    /\ main[r].pc = "filterTimestamp(newReading)"
    /\ LET f == Called(main[r], "filterTimestamp(newReading)")
       IN IF filterTimestampRaises(f.newReading)
          THEN Frame(r, Raised(Failed(f, "filterTimestamp"), "AnalysisException"))
          ELSE Frame(r, [f EXCEPT !.nrFilteredDf = filterTimestamp(f.newReading),
                                  !.pc = Resume("filterTimestamp(newReading)", FALSE)])

\* Line 173, vectorizeDataframe(filteredDf, features).
VectorizeData(r) ==
    /\ main[r].pc = "vectorizeDataframe(filteredDf)"
    /\ \E exc \in BOOLEAN :
        LET f == Called(main[r], "vectorizeDataframe(filteredDf)")
        IN IF exc \/ vectorizeDataframeRaises(f.filteredDf, f.features)
           THEN Frame(r, Raised(Failed(f, "vectorizeDataframe"), "Exception"))
           ELSE Frame(r, [f EXCEPT
                    !.filteredDf = vectorizeDataframe(f.filteredDf, f.features),
                    !.pc = Resume("vectorizeDataframe(filteredDf)", FALSE)])

\* Line 174, splitDataframe (85-89): both parts have the dataframe's columns.
SplitDataframe(r) ==
    /\ main[r].pc = "splitDataframe"
    /\ \E exc \in BOOLEAN :
        LET f == Called(main[r], "splitDataframe")
        IN IF exc
           THEN Frame(r, Raised(Failed(f, "splitDataframe"), "Exception"))
           ELSE Frame(r, [f EXCEPT !.trainSplit = f.filteredDf,
                                   !.testSplit = f.filteredDf,
                                   !.pc = Resume("splitDataframe", FALSE)])

\* Line 175, vectorizeDataframe(nrFilteredDf, features).
VectorizeNewReading(r) ==
    /\ main[r].pc = "vectorizeDataframe(nrFilteredDf)"
    /\ \E exc \in BOOLEAN :
        LET f == Called(main[r], "vectorizeDataframe(nrFilteredDf)")
        IN IF exc \/ vectorizeDataframeRaises(f.nrFilteredDf, f.features)
           THEN Frame(r, Raised(Failed(f, "vectorizeDataframe"), "Exception"))
           ELSE Frame(r, [f EXCEPT
                    !.nrFilteredDf = vectorizeDataframe(f.nrFilteredDf, f.features),
                    !.pc = Resume("vectorizeDataframe(nrFilteredDf)", FALSE)])

\* Line 176, decisionTreeRegression (94-114).
DecisionTreeRegression(r) ==
    /\ main[r].pc = "decisionTreeRegression"
    /\ \E exc \in BOOLEAN :
        LET f == Called(main[r], "decisionTreeRegression")
            ret == IF exc THEN None ELSE decisionTreeRegression(f.label)
        IN IF UnpackRaises(ret)
           THEN Frame(r, Raised(Failed(Printed(f,
                    "Model Creation Error -> Cannot perform the creation of the model"),
                    "decisionTreeRegression"), "TypeError"))
           ELSE Frame(r, [f EXCEPT !.dtcv = ret.dtcv, !.dtEvaluator = ret.dtEvaluator,
                                   !.pc = Resume("decisionTreeRegression", FALSE)])

\* Line 177, trainOrLoad (120-141): lines 121-122, the path and the branch.
TrainOrLoad(r) ==
    /\ main[r].pc = "trainOrLoad"
    /\ LET f == Called(main[r], "trainOrLoad")
       IN IF ~PathExists(fs, ModelPath(f.label))
          THEN Frame(r, [f EXCEPT !.branch = "train", !.pc = "fit"])
          ELSE Frame(r, [f EXCEPT !.branch = "load", !.pc = "load"])

\* Lines 124-125 (and 129-132 when fit raises).
Fit(r) ==
    /\ main[r].pc = "fit"
    /\ \E exc \in BOOLEAN, tree \in Trees :
        LET f == Called(main[r], "fit")
        IN IF exc
           THEN Frame(r, [Failed(Printed(f,
                    "Model Training Error -> Cannot perform the training of the model"),
                    "trainOrLoad")
                    EXCEPT !.bestModel = None, !.pc = Resume("trainOrLoad", TRUE)])
           ELSE Frame(r, [f EXCEPT !.fitted = BestModel(f.dtcv, tree), !.pc = "save"])

\* Lines 126-128 (and 129-132 when save raises).
SaveModel(r) ==
    /\ main[r].pc = "save"
    /\ \E outcome \in SaveOutcomes :
        LET f == [Called(main[r], "save") EXCEPT !.found = fs[ModelPath(main[r].label)]]
            path == ModelPath(f.label)
        IN /\ fs' = Save(fs, path, f.fitted, outcome)
           /\ IF outcome = "ok"
              THEN /\ main' = [main EXCEPT ![r] =
                                 [Printed(f, "Model Saved")
                                    EXCEPT !.bestModel = f.fitted,
                                           !.pc = Resume("trainOrLoad", FALSE)]]
                   /\ savedModel' = [savedModel EXCEPT ![f.label] = f.fitted]
              ELSE /\ main' = [main EXCEPT ![r] =
                                 [Failed(Printed(f,
                                    "Model Training Error -> Cannot perform the training of the model"),
                                    "trainOrLoad")
                                    EXCEPT !.bestModel = None,
                                           !.pc = Resume("trainOrLoad", TRUE)]]
                   /\ UNCHANGED savedModel
           /\ UNCHANGED <<csv, json, started>>

\* Lines 135-137 (and 138-141 when load raises).
LoadModel(r) ==
    /\ main[r].pc = "load"
    /\ LET f == Called(main[r], "load")
           path == ModelPath(f.label)
       IN IF LoadRaises(fs, path)
          THEN Frame(r, [Failed(Printed(f,
                   "Model Creation Error -> Cannot perform the creation of the model"),
                   "trainOrLoad")
                   EXCEPT !.bestModel = None, !.pc = Resume("trainOrLoad", TRUE)])
          ELSE Frame(r, [Printed(f, "Model Loaded")
                   EXCEPT !.bestModel = Load(fs, path),
                          !.pc = Resume("trainOrLoad", FALSE)])

\* Line 178, featureImportance (160-163).
FeatureImportance(r) ==
    /\ main[r].pc = "featureImportance"
    /\ LET f == Printed(Called(main[r], "featureImportance"), "Feature Importances:")
       IN IF FeatureImportanceRaises(f.bestModel)
          THEN Frame(r, Raised(Failed(f, "featureImportance"), "AttributeError"))
          ELSE Frame(r, [Printed(f, "importances")
                           EXCEPT !.pc = Resume("featureImportance", FALSE)])

\* Line 179, predictAndEvaluate (146-158): the predictions on the test split
\* are shown, then those on the new reading, then the RMSE and the tree; the
\* guard prints its message at the first of these that raises.
PredictAndEvaluate(r) ==
    /\ main[r].pc = "predictAndEvaluate"
    /\ LET f == Called(main[r], "predictAndEvaluate")
           shown == IF f.bestModel = None \/ AssembleRaises(f.testSplit) THEN f
                    ELSE Printed(f, "prediction: testDf")
       IN IF PredictRaises(f.bestModel, f.testSplit, f.nrFilteredDf)
          THEN Frame(r, [Failed(Printed(shown,
                   "Model Prediction Error -> Cannot perform the prediction on the model"),
                   "predictAndEvaluate")
                   EXCEPT !.pc = Resume("predictAndEvaluate", TRUE)])
          ELSE Frame(r, [Printed(Printed(Printed(shown, "prediction: nrFilteredDf"),
                                         "RMSE:"),
                                 "Learned classification tree model:")
                   EXCEPT !.nrPrediction =
                              <<Predict(f.bestModel,
                                        f.nrFilteredDf.row["features"].val[1][1][1])>>,
                          !.pc = Resume("predictAndEvaluate", FALSE)])

\* Line 185, once main has returned.
Finish(r) ==
    /\ main[r].pc = "return"
    /\ Frame(r, [Printed(main[r], "Decision Tree Regression Test Finished")
                   EXCEPT !.pc = "finished"])

Step(r) ==
    \/ Initialize(r)
    \/ SetLabel(r)
    \/ FilterData(r)
    \/ Features(r)
    \/ CacheDataframe(r)
    \/ FilterNewReading(r)
    \/ VectorizeData(r)
    \/ SplitDataframe(r)
    \/ VectorizeNewReading(r)
    \/ DecisionTreeRegression(r)
    \/ TrainOrLoad(r)
    \/ Fit(r)
    \/ SaveModel(r)
    \/ LoadModel(r)
    \/ FeatureImportance(r)
    \/ PredictAndEvaluate(r)
    \/ Finish(r)

\* Invocations that follow one another.
Next == \E r \in Slots : Start(r) \/ Step(r)
Spec == Init /\ [][Next]_vars

\* Invocations that may overlap.
NextOverlap == \E r \in Slots : Start(r) \/ StartOverlapping(r) \/ Step(r)
SpecOverlap == Init /\ [][NextOverlap]_vars

(***************************************************************************)
(* The timestamp engineering alone: the two files hold readings taken at   *)
(* any half hour of the first MaxTicks, and the script runs up to its      *)
(* second call of filterTimestamp.                                         *)
(***************************************************************************)
Ticks == {k * 1800 * MsPerSecond : k \in 0..MaxTicks}

InitBucket ==
    /\ \E ms \in Ticks : csv = CsvAt(ms) /\ json = JsonAt(ms)
    /\ fs = [p \in ModelPaths |-> Absent]
    /\ started = 0
    /\ savedModel = [l \in Labels |-> None]
    /\ main = [r \in Slots |-> Idle]

NextBucket ==
    \E r \in Slots :
        \/ Start(r)
        \/ Initialize(r)
        \/ SetLabel(r)
        \/ FilterData(r)
        \/ Features(r)
        \/ CacheDataframe(r)
        \/ FilterNewReading(r)
SpecBucket == InitBucket /\ [][NextBucket]_vars

(***************************************************************************)
(* The claims.                                                             *)
(***************************************************************************)
\* The hour of the day (UTC) of a timestamp in milliseconds.
HourOfDay(ms) == (ms \div 3600000) % 24

\* b is the 3-hour range the hour h lies in.
InRange(h, b) == b \in 0..7 /\ 3 * b <= h /\ h < 3 * b + 3

\* C6: filterTimestamp maps every hour in 0..23 to hour_range = floor(hour/3),
\* which lies in 0..7; each of the 8 ranges receives exactly 3 hours.  Here:
\* the hour_range of the filtered dataset and of the filtered new reading is
\* the range the hour of the file's timestamp lies in.
C6_HourRange ==
    /\ \A r \in Slots :
        /\ main[r].filteredDf # None =>
             InRange(HourOfDay(csv.df.row["timestamp"].val[1]),
                     main[r].filteredDf.row["hour_range"].val[1])
        /\ main[r].nrFilteredDf # None =>
             InRange(HourOfDay(json.df.row["timestamp"].val[1]),
                     main[r].nrFilteredDf.row["hour_range"].val[1])
    /\ \A b \in 0..7 :
        Cardinality({h \in 0..23 : HourRange(Cell("int", <<h>>)).val[1] = b}) = 3

\* A new reading taken at 23 h has been filtered into the last range.
C6_Witness ==
    \E r \in Slots :
        /\ main[r].nrFilteredDf # None
        /\ HourOfDay(json.df.row["timestamp"].val[1]) = 23
        /\ main[r].nrFilteredDf.row["hour_range"].val[1] = 7

\* The call has been made in the frame and did not end main.
Done(f, call) ==
    \E i \in DOMAIN f.trace :
        f.trace[i] = call /\ (i < Len(f.trace) \/ f.pc # "aborted")

\* C7: the feature list built in main never contains the label; it is the
\* columns of the timestamp-filtered dataset (the file's columns without
\* timestamp, timestamp2 and hour, with month, day and hour_range) minus the
\* label, and the same list vectorizes the dataset and the new reading.
C7_FeatureList ==
    \A r \in Slots :
        LET f == main[r]
        IN Done(f, "features.remove") =>
            /\ f.label \notin Range(f.features)
            /\ Range(f.features) =
                 (((Range(csv.df.columns) \ {"timestamp", "timestamp2", "hour"})
                     \cup {"month", "day", "hour_range"}) \ {f.label})
            /\ Cardinality(Range(f.features)) = Len(f.features)
            /\ Done(f, "vectorizeDataframe(filteredDf)") =>
                 f.filteredDf.row["features"].inputCols = f.features
            /\ Done(f, "vectorizeDataframe(nrFilteredDf)") =>
                 f.nrFilteredDf.row["features"].inputCols = f.features

\* Both dataframes of a run for the label hum are vectorized.
C7_Witness ==
    \E r \in Slots :
        /\ main[r].label = "hum"
        /\ Done(main[r], "vectorizeDataframe(filteredDf)")
        /\ Done(main[r], "vectorizeDataframe(nrFilteredDf)")
        /\ main[r].features = <<"temp", "month", "day", "hour_range">>

\* C8 as stated: the new reading initialize returns has the types of the
\* dataset's columns and no null in any column.
C8_NullFilledSameSchema ==
    \A r \in Slots :
        LET f == main[r]
        IN Done(f, "initialize") =>
            \A c \in Range(f.newReading.columns) :
                /\ ~IsNull(f.newReading.row[c])
                /\ c \in Range(f.dataDf.columns) =>
                     f.newReading.row[c].type = f.dataDf.row[c].type

\* C8, amended: initialize casts only the label column of the new reading
\* to double and fills only that column's null with 0.0; every other column
\* keeps the type and the value, null included, read from the file.
C8_OnlyLabelFilled ==
    \A r \in Slots :
        LET f == main[r]
            l == Argv1(f.argv)
        IN Done(f, "initialize") =>
            /\ f.newReading.columns = json.df.columns
            /\ f.newReading.row[l].type = "double"
            /\ ~IsNull(f.newReading.row[l])
            /\ IsNull(json.df.row[l]) => f.newReading.row[l].val = <<0>>
            /\ ~IsNull(json.df.row[l]) => f.newReading.row[l].val = json.df.row[l].val
            /\ \A c \in Range(json.df.columns) \ {l} :
                 f.newReading.row[c] = json.df.row[c]

\* The label was null in the file and is 0.0 in the new reading.
C8_Witness ==
    \E r \in Slots :
        /\ Done(main[r], "initialize")
        /\ IsNull(json.df.row[Argv1(main[r].argv)])
        /\ main[r].newReading.row[Argv1(main[r].argv)] = Cell("double", <<0>>)

\* The place of x in a sequence without repetitions; 0 when it is not there.
Place(seq, x) == IF x \in Range(seq) THEN IndexOf(seq, x) ELSE 0

\* The calls of the frame's trace are in the order of the sequence steps,
\* the calls made inside trainOrLoad (fit, save, load) belonging to it.
StepOf(call) == IF call \in {"fit", "save", "load"} THEN "trainOrLoad" ELSE call
InOrder(f, steps) ==
    \A i, j \in DOMAIN f.trace :
        i < j => Place(steps, StepOf(f.trace[i])) <= Place(steps, StepOf(f.trace[j]))

\* C3 as stated: the steps of a run occur in the order load data, engineer
\* the timestamp, vectorize, build the cross-validator, persist or load the
\* best model, predict and evaluate, and only then report the feature
\* importances.
C3_ImportancesLast ==
    \A r \in Slots :
        /\ InOrder(main[r],
             <<"initialize", "setLabel", "filterTimestamp(dataDf)", "features.remove",
               "cacheDataframe", "filterTimestamp(newReading)",
               "vectorizeDataframe(filteredDf)", "splitDataframe",
               "vectorizeDataframe(nrFilteredDf)", "decisionTreeRegression",
               "trainOrLoad", "predictAndEvaluate", "featureImportance">>)
        /\ "Feature Importances:" \in Range(main[r].out) =>
             "RMSE:" \in Range(main[r].out)

\* C3, amended: the steps of a run occur in the order load data, engineer
\* the timestamp, vectorize, build the cross-validator, persist or load the
\* best model, report the feature importances, and only then predict and
\* evaluate: the importances are printed before any prediction or RMSE.
C3_ImportancesBeforePredict ==
    \A r \in Slots :
        /\ InOrder(main[r],
             <<"initialize", "setLabel", "filterTimestamp(dataDf)", "features.remove",
               "cacheDataframe", "filterTimestamp(newReading)",
               "vectorizeDataframe(filteredDf)", "splitDataframe",
               "vectorizeDataframe(nrFilteredDf)", "decisionTreeRegression",
               "trainOrLoad", "featureImportance", "predictAndEvaluate">>)
        /\ "RMSE:" \in Range(main[r].out) =>
             /\ "Feature Importances:" \in Range(main[r].out)
             /\ Place(main[r].out, "Feature Importances:")
                  < Place(main[r].out, "prediction: testDf")
             /\ Place(main[r].out, "prediction: testDf")
                  < Place(main[r].out, "prediction: nrFilteredDf")
             /\ Place(main[r].out, "prediction: nrFilteredDf") < Place(main[r].out, "RMSE:")
        /\ "prediction: testDf" \in Range(main[r].out) =>
             Place(main[r].out, "Feature Importances:")
               \in 1..(Place(main[r].out, "prediction: testDf") - 1)

\* A run has reported the importances, predicted and evaluated, and ended.
C3_Witness ==
    \E r \in Slots :
        /\ main[r].pc = "finished"
        /\ "Feature Importances:" \in Range(main[r].out)
        /\ "RMSE:" \in Range(main[r].out)

\* The functions whose body is inside a try, and what each prints when the
\* guard catches.
GuardMessage ==
    [initialize |-> "Dataset Loading Error -> Cannot read the label",
     setLabel |-> "Label Setting Error -> Cannot retrieve the label",
     decisionTreeRegression |->
        "Model Creation Error -> Cannot perform the creation of the model",
     predictAndEvaluate |->
        "Model Prediction Error -> Cannot perform the prediction on the model"]

\* C2 as stated: a failure inside a pipeline function never aborts the run;
\* main proceeds and the run reaches its end.
C2_NeverAborts ==
    \A r \in Slots : main[r].failed # <<>> => main[r].pc # "aborted"

\* C2, amended: a failure inside setLabel, decisionTreeRegression,
\* trainOrLoad, predictAndEvaluate or the try block of initialize is logged
\* and the function returns an unset value, but a run with a failure reaches
\* its end only when the failure was in predictAndEvaluate.  An unset value
\* from initialize or decisionTreeRegression makes main's unpacking raise,
\* one from trainOrLoad makes featureImportance raise, and a failure in an
\* unguarded function (filterTimestamp, cacheDataframe, vectorizeDataframe,
\* splitDataframe, featureImportance, the SparkContext construction) leaves
\* main as it is raised: each ends the run before its last line.
C2_OnlyPredictFailureReachesEnd ==
    \A r \in Slots :
        LET f == main[r]
        IN /\ f.pc \in {"return", "finished"} =>
                Range(f.failed) \subseteq {"predictAndEvaluate"}
           /\ f.pc = "finished" <=>
                (f.out # <<>> /\ f.out[Len(f.out)] = "Decision Tree Regression Test Finished")
           /\ f.pc = "aborted" <=> f.uncaught # "none"
           /\ f.pc = "aborted" => f.failed # <<>>
           /\ Range(f.failed) \ {"predictAndEvaluate"} # {} =>
                \/ f.pc = "aborted"
                \/ /\ f.pc = "featureImportance"
                   /\ f.failed = <<"trainOrLoad">>
                   /\ f.bestModel = None
           /\ "trainOrLoad" \in Range(f.failed) =>
                \E i \in DOMAIN f.out : f.out[i] \in
                    {"Model Training Error -> Cannot perform the training of the model",
                     "Model Creation Error -> Cannot perform the creation of the model"}
           /\ \A g \in DOMAIN GuardMessage :
                (g \in Range(f.failed) /\ f.uncaught # "SparkContext") =>
                    GuardMessage[g] \in Range(f.out)

\* A run whose predictAndEvaluate failed has printed its last line.
C2_Witness ==
    \E r \in Slots :
        /\ main[r].pc = "finished"
        /\ main[r].failed = <<"predictAndEvaluate">>

\* The run of the frame has logged a failure of trainOrLoad.
TrainOrLoadFailed(f) == "trainOrLoad" \in Range(f.failed)

\* C9: no retry and no recovery.  Within a run no call of main (and no call
\* inside trainOrLoad) is made twice, a run never both loads and fits, and
\* once a call of the run has failed the run changes nothing under the model
\* paths.
C9_NoRetryNoRecovery ==
    /\ [](\A r \in Slots :
            /\ \A i, j \in DOMAIN main[r].trace :
                 main[r].trace[i] = main[r].trace[j] => i = j
            /\ ~({"load", "fit"} \subseteq Range(main[r].trace)))
    /\ [][(\E r \in Slots : ~Ended(main[r]) /\ main[r].failed # <<>>) => fs' = fs]_vars

\* A run met a partial artifact, failed to load it, did not train, and ended
\* at featureImportance.
C9_Witness ==
    \E r \in Slots :
        /\ main[r].pc = "aborted"
        /\ TrainOrLoadFailed(main[r])
        /\ main[r].trace[Len(main[r].trace)] = "featureImportance"
        /\ "load" \in Range(main[r].trace)
        /\ fs[ModelPath(main[r].label)].kind = "partial"

\* C1: the lifecycle of the model of a label across successive runs.  A run
\* that finds no artifact under the path takes the training branch, and the
\* model it returns is the one it saved; once the model is saved the path
\* is never changed again and every later run for the label takes the load
\* branch, gets the model and does not fit.
C1_Lifecycle ==
    /\ [](\A r \in Slots :
            LET f == main[r]
                a == fs[ModelPath(f.label)]
            IN Done(f, "trainOrLoad") =>
                /\ f.branch = "train" =>
                     /\ f.found \in {None, Absent}
                     /\ a.kind = "saved" <=> f.bestModel # None
                     /\ f.bestModel # None => a = Saved(f.bestModel)
                /\ (f.branch = "load" /\ a.kind = "saved") =>
                     /\ "fit" \notin Range(f.trace)
                     /\ Done(f, "load") => f.bestModel = savedModel[f.label])
    /\ [][\A r \in Slots :
            (main[r].pc = "trainOrLoad" /\ main'[r].pc # "trainOrLoad") =>
                (main'[r].branch = "train" <=>
                    fs[ModelPath(main[r].label)].kind = "absent")]_vars
    /\ [][\A p \in ModelPaths : fs[p].kind = "saved" => fs'[p] = fs[p]]_vars

\* A later run has loaded the model an earlier run trained and saved.
C1_Witness ==
    \E r \in Slots :
        /\ started >= 2
        /\ main[r].branch = "load"
        /\ main[r].bestModel # None
        /\ main[r].bestModel = savedModel[main[r].label]
        /\ main[r].pc = "finished"

C5_OverwrittenOnRetrain ==
    [][\A r \in Slots :
        (main[r].pc = "save" /\ main'[r].pc # "save" /\ main'[r].bestModel # None) =>
            fs'[ModelPath(main[r].label)] = Saved(main'[r].bestModel)]_vars

\* A run has trained and saved its model over the different model another
\* run had saved since this run looked for the path.
C5_Witness ==
    \E r \in Slots :
        /\ main[r].branch = "train"
        /\ main[r].bestModel # None
        /\ main[r].found.kind = "saved"
        /\ main[r].found # Saved(main[r].bestModel)
        /\ fs[ModelPath(main[r].label)] = Saved(main[r].bestModel)

====
